---- MODULE Spec2Model ----
(***************************************************************************)
(* Incident workflow of the incident-management platform: the role policy  *)
(* (app/utils/rbac.py), the status transition engine, the request handlers *)
(* of app/routes/incidents.py and the audit recorder                       *)
(* (app/utils/audit_log.py), over the committed contents of the database.  *)
(*                                                                         *)
(* A handler is split at its database commits: the step that queries and   *)
(* validates (named _query), the step that ends with the handler's         *)
(* db.commit() (named _commit) and the step in which log_audit() adds the  *)
(* audit row and commits a second time (named _audit).  The variables      *)
(* incidents, timeline and audit hold committed rows only; what a handler  *)
(* has pending in its SQLAlchemy session lives in req and is lost if the   *)
(* handler fails.                                                          *)
(***************************************************************************)
EXTENDS Integers, Sequences, FiniteSets, TLC

VARIABLES
    incidents,  \* table incidents: sequence of rows, the row's id is its index
    timeline,   \* table incident_timeline, in insertion order
    audit,      \* table audit_logs, in insertion order
    clock,      \* the next value datetime.utcnow() returns
    pc,         \* per worker: position of the request it is handling
    req,        \* per worker: the request and what the handler has read so far
    resp,       \* per worker: HTTP status code of the response, "" while none
    failures,   \* handlers that failed between their steps so far
    corrective_actions,  \* table corrective_actions: sequence of rows, id is the index
    sweep,      \* per thread: its execution of send_reminders and the counters of its last run
    outbox,     \* the reminder notifications attempted so far
    scheduler_running,  \* the BackgroundScheduler of reminder_scheduler is running
    ai_enabled, \* ai_service.enabled, fixed when the process starts
    ai_similar_incidents,   \* table ai_similar_incidents, in insertion order
    postmortems,    \* table postmortems: sequence of rows, id is the index
    active,     \* column users.active, by user id
    sessions    \* table sessions: the session ids, each with its user and whether
                \* its expires_at has passed

vars == <<incidents, timeline, audit, clock, pc, req, resp, failures,
          corrective_actions, sweep, outbox, scheduler_running,
          ai_enabled, ai_similar_incidents, postmortems, active, sessions>>

\* users and their sessions, which only login, logout and get_session write
accounts == <<active, sessions>>

\* the similarity advisory, which only create_incident runs
advisory == <<ai_enabled, ai_similar_incidents>>

\* the state of the reminder scheduler, which no request handler touches
reminders == <<sweep, outbox, scheduler_running>>

\* what the steps of create_incident, update_incident_status and add_comment modelled
\* up to the audit row never write
outside_incidents == <<corrective_actions, reminders, advisory, postmortems, accounts>>

----------------------------------------------------------------------------
(* Bounds of the model *)

\* rows the incidents table may hold
MaxIncidents == 1
\* rows the incident_timeline table may hold before handlers stop taking requests
MaxTimeline == 5
\* rows the audit_logs table may hold before handlers stop taking requests
MaxAudit == 5
\* handlers that may fail between their steps
MaxFailures == 1
\* rows the corrective_actions table may hold
MaxActions == 2
\* audit rows of corrective actions before their handlers stop taking requests
MaxActionAudit == 3
\* incidents created beyond MaxIncidents where the advisory needs history
MaxHistory == 1
\* audit rows of postmortems before their handlers stop taking requests
MaxPostmortemAudit == 2
\* sessions created before login stops taking requests
MaxSessions == 2

----------------------------------------------------------------------------
(* Values *)

\* Python None in a nullable integer or timestamp column
None == 0
\* Python None in an optional enum field of a request
Unset == "None"

\* worker processes serving requests against the one database
Workers == {"w1", "w2"}
\* the worker of a single-process deployment (uvicorn.run in main.py)
MainWorker == "w1"

\* users created by seed_database, by id
Users == 1 .. 5
UserRoles == {"ADMIN", "INCIDENT_MANAGER", "SME", "SUPPORT_L2", "SUPPORT_EXPERT"}
role_of(u) ==
    CASE u = 1 -> "ADMIN"
      [] u = 2 -> "INCIDENT_MANAGER"
      [] u = 3 -> "SME"
      [] u = 4 -> "SUPPORT_L2"
      [] u = 5 -> "SUPPORT_EXPERT"

\* banks created by seed_database, by id
Banks == 1 .. 3

\* the users who report incidents and comment on them (no handler looks at their role)
Reporters == {3}

IncidentStatus == {"OPEN", "ACKNOWLEDGED", "IN_PROGRESS", "RESOLVED", "CLOSED"}

\* the members of the enum CorrectiveActionStatus
CorrectiveActionStatus == {"OPEN", "CLOSED"}

----------------------------------------------------------------------------
(* Role policy and status transition engine: app/utils/rbac.py *)

\* mutant: SUPPORT_L2 left out of the list
can_acknowledge_incident_without_l2(role) ==
    role \in {"SUPPORT_EXPERT", "INCIDENT_MANAGER", "ADMIN"}

can_acknowledge_incident(role) ==
    role \in {"SUPPORT_L2", "SUPPORT_EXPERT", "INCIDENT_MANAGER", "ADMIN"}

can_resolve_incident(role) ==
    role \in {"INCIDENT_MANAGER", "ADMIN"}

\* mutant: the table lets ACKNOWLEDGED skip to RESOLVED
valid_transitions_skip(current_status) ==
    CASE current_status = "OPEN" -> {"ACKNOWLEDGED"}
      [] current_status = "ACKNOWLEDGED" -> {"IN_PROGRESS", "RESOLVED"}
      [] current_status = "IN_PROGRESS" -> {"RESOLVED"}
      [] current_status = "RESOLVED" -> {"CLOSED"}
      [] current_status = "CLOSED" -> {}

valid_transitions(current_status) ==
    CASE current_status = "OPEN" -> {"ACKNOWLEDGED"}
      [] current_status = "ACKNOWLEDGED" -> {"IN_PROGRESS"}
      [] current_status = "IN_PROGRESS" -> {"RESOLVED"}
      [] current_status = "RESOLVED" -> {"CLOSED"}
      [] current_status = "CLOSED" -> {}

\* mutant: the role check runs before the check against the table
validate_status_transition_role_first(current_status, new_status, role) ==
    IF new_status = "ACKNOWLEDGED" /\ ~can_acknowledge_incident(role) THEN "403"
    ELSE IF new_status \in {"RESOLVED", "CLOSED"} /\ ~can_resolve_incident(role) THEN "403"
    ELSE IF new_status \notin valid_transitions(current_status) THEN "400"
    ELSE "ok"

\* mutant: moving to IN_PROGRESS asks for the roles that may acknowledge
validate_status_transition_gated(current_status, new_status, role) ==
    IF new_status \notin valid_transitions(current_status) THEN "400"
    ELSE IF new_status \in {"ACKNOWLEDGED", "IN_PROGRESS"} THEN
        (IF can_acknowledge_incident(role) THEN "ok" ELSE "403")
    ELSE IF new_status \in {"RESOLVED", "CLOSED"} THEN
        (IF can_resolve_incident(role) THEN "ok" ELSE "403")
    ELSE "ok"

\* "ok" when the function returns, else the status code of the HTTPException
validate_status_transition(current_status, new_status, role) ==
    IF new_status \notin valid_transitions(current_status) THEN "400"
    ELSE IF new_status = "ACKNOWLEDGED" THEN
        (IF can_acknowledge_incident(role) THEN "ok" ELSE "403")
    ELSE IF new_status \in {"RESOLVED", "CLOSED"} THEN
        (IF can_resolve_incident(role) THEN "ok" ELSE "403")
    ELSE "ok"

----------------------------------------------------------------------------
(* Rows *)

new_incident(bank_id, incident_manager_id, user) ==
    [ status |-> "OPEN",
      bank_id |-> bank_id,
      incident_manager_id |-> incident_manager_id,
      created_by_id |-> user,
      acknowledged_at |-> None,
      resolved_at |-> None,
      closed_at |-> None,
      title |-> "reported",
      impact_summary |-> Unset,
      current_owner_id |-> None,
      downtime |-> <<>>,
      technical_decline_pct |-> <<>> ]

\* Of a timeline or audit row the model keeps the columns a handler or a query
\* selects on, and the old/new pair; the free-text description, the actor's id
\* and the insertion time are written once and never read by a handler.
IncidentTimeline(incident_id, event_type, old_value, new_value) ==
    [ incident_id |-> incident_id,
      event_type |-> event_type,
      old_value |-> old_value,
      new_value |-> new_value ]

\* mutant: the latest row of the entity is rewritten instead of a row being added
log_audit_rewriting(log, entity_type, entity_id, action, metadata) ==
    LET row == [ entity_type |-> entity_type, entity_id |-> entity_id,
                 action |-> action, extra_data |-> metadata ]
    IN  IF log # <<>> /\ log[Len(log)].entity_type = entity_type
                     /\ log[Len(log)].entity_id = entity_id
        THEN [log EXCEPT ![Len(log)] = row]
        ELSE Append(log, row)

\* log_audit: one row added to audit_logs and committed
log_audit(log, entity_type, entity_id, action, metadata) ==
    Append(log, [ entity_type |-> entity_type,
                  entity_id |-> entity_id,
                  action |-> action,
                  extra_data |-> metadata ])

log_incident_create(log, incident_id) ==
    log_audit(log, "INCIDENT", incident_id, "CREATE", <<>>)

\* mutant: the status change is logged as a plain UPDATE
log_status_change_as_update(log, incident_id, old_status, new_status) ==
    log_audit(log, "INCIDENT", incident_id, "UPDATE", <<old_status, new_status>>)

log_status_change(log, incident_id, old_status, new_status) ==
    log_audit(log, "INCIDENT", incident_id, "STATUS_CHANGE", <<old_status, new_status>>)

----------------------------------------------------------------------------
(* Requests *)

NoRequest == [ op |-> "none" ]

Idle(w) == pc[w] \in {"idle", "done"}

\* the handler of worker w answers with status code `code`
Respond(w, r, code) ==
    /\ pc' = [pc EXCEPT ![w] = "done"]
    /\ req' = [req EXCEPT ![w] = r]
    /\ resp' = [resp EXCEPT ![w] = code]

\* the handler of worker w goes on to position `at`
Goto(w, r, at) ==
    /\ pc' = [pc EXCEPT ![w] = at]
    /\ req' = [req EXCEPT ![w] = r]
    /\ resp' = [resp EXCEPT ![w] = ""]

\* the audit rows of one entity type, in insertion order
AuditRows(entity_type) ==
    LET P(a) == a.entity_type = entity_type IN SelectSeq(audit, P)

HasRoom == Len(timeline) < MaxTimeline /\ Len(AuditRows("INCIDENT")) < MaxAudit

----------------------------------------------------------------------------
(* create_incident: app/routes/incidents.py *)

create_incident_query(w, user, bank_id, incident_manager_id) ==
    /\ Idle(w)
    /\ HasRoom
    /\ LET r == [ op |-> "create", user |-> user, bank_id |-> bank_id,
                  incident_manager_id |-> incident_manager_id,
                  incident_id |-> None, advisory |-> "" ]
       IN  IF bank_id \notin Banks THEN Respond(w, r, "404")
           ELSE IF /\ incident_manager_id # None
                   /\ \/ incident_manager_id \notin Users
                      \/ role_of(incident_manager_id) \notin {"INCIDENT_MANAGER", "ADMIN"}
                THEN Respond(w, r, "400")
           ELSE Goto(w, r, "loaded")
    /\ UNCHANGED <<incidents, timeline, audit, clock, failures, outside_incidents>>

create_incident_commit(w) ==
    /\ pc[w] = "loaded"
    /\ req[w].op = "create"
    /\ LET id == Len(incidents) + 1
       IN  /\ incidents' = Append(incidents,
                new_incident(req[w].bank_id, req[w].incident_manager_id, req[w].user))
           /\ timeline' = Append(timeline,
                IncidentTimeline(id, "CREATE", "", ""))
           /\ Goto(w, [req[w] EXCEPT !.incident_id = id], "committed")
    /\ UNCHANGED <<audit, clock, failures, outside_incidents>>

create_incident_audit(w) ==
    /\ pc[w] = "committed"
    /\ req[w].op = "create"
    /\ audit' = log_incident_create(audit, req[w].incident_id)
    /\ IF ai_enabled THEN Goto(w, req[w], "audited") ELSE Respond(w, req[w], "200")
    /\ UNCHANGED <<incidents, timeline, clock, failures, outside_incidents>>

\* what the advisory can come to: the collaborator names similar incidents, names
\* none, fails (find_similar_incidents catches it and reports no candidate), or
\* _run_ai_similar_search itself raises
AdvisoryOutcomes == {"candidates", "nothing", "fails", "raises"}

\* lines 313-322: the RESOLVED or CLOSED incidents of the same bank, the new one excluded
historical(incident_id) ==
    { j \in DOMAIN incidents :
        /\ j # incident_id
        /\ incidents[j].bank_id = incidents[incident_id].bank_id
        /\ incidents[j].status \in {"RESOLVED", "CLOSED"} }

\* the advisory gets as far as storing a result
advisory_stores(incident_id, outcome) ==
    historical(incident_id) # {} /\ outcome # "raises"

\* mutant: an AI_RECOMMENDATION row is added whenever a result is stored
advisory_timeline_always(tl, incident_id, outcome) ==
    IF advisory_stores(incident_id, outcome)
    THEN Append(tl, IncidentTimeline(incident_id, "AI_RECOMMENDATION", "", ""))
    ELSE tl

\* mutant: the result is stored and no timeline row is ever added
advisory_timeline_never(tl, incident_id, outcome) == tl

\* lines 343-351: the AI_RECOMMENDATION row, added only when candidates were returned
advisory_timeline(tl, incident_id, outcome) ==
    IF advisory_stores(incident_id, outcome) /\ outcome = "candidates"
    THEN Append(tl, IncidentTimeline(incident_id, "AI_RECOMMENDATION", "", ""))
    ELSE tl

\* mutant: an exception of the advisory reaches the caller of create
advisory_response_unguarded(outcome) ==
    IF outcome = "raises" THEN "500" ELSE "200"

\* lines 116-122: whatever _run_ai_similar_search does, the except swallows it and
\* the handler returns the incident
advisory_response(outcome) == "200"

\* lines 116-122 and _run_ai_similar_search (306-353), reached with the advisory enabled
create_incident_advisory(w, outcome) ==
    /\ pc[w] = "audited"
    /\ req[w].op = "create"
    /\ LET id == req[w].incident_id
       IN  /\ ai_similar_incidents' =
                IF advisory_stores(id, outcome)
                THEN Append(ai_similar_incidents,
                        [ incident_id |-> id, similar |-> outcome = "candidates" ])
                ELSE ai_similar_incidents
           /\ timeline' = advisory_timeline(timeline, id, outcome)
    /\ Respond(w, [req[w] EXCEPT !.advisory = outcome], advisory_response(outcome))
    /\ UNCHANGED <<incidents, audit, clock, failures, corrective_actions, reminders,
                   ai_enabled, postmortems, accounts>>

----------------------------------------------------------------------------
(* update_incident_status: app/routes/incidents.py *)

\* lines 377-386: the new status and the timestamp of the state entered
set_status(incident, new_status, now) ==
    LET i == [incident EXCEPT !.status = new_status]
    IN  IF new_status = "ACKNOWLEDGED" THEN [i EXCEPT !.acknowledged_at = now]
        ELSE IF new_status = "RESOLVED" THEN [i EXCEPT !.resolved_at = now]
        ELSE IF new_status = "CLOSED" THEN [i EXCEPT !.closed_at = now]
        ELSE i

\* mutant: the row is assigned to before the transition is validated
status_update_unchecked(verdict, incident, new_status, now) ==
    set_status(incident, new_status, now)

\* lines 374-386: validate_status_transition raises before the first assignment,
\* so the row is assigned to only when the verdict is "ok"
status_update(verdict, incident, new_status, now) ==
    IF verdict = "ok" THEN set_status(incident, new_status, now) ELSE incident

\* mutant: the STATUS_CHANGE row is never added to the session
status_change_timeline_missing(verdict, tl, incident_id, old_status, new_status) == tl

\* lines 388-401: the STATUS_CHANGE row added to the session, reached only when
\* validate_status_transition returned
status_change_timeline(verdict, tl, incident_id, old_status, new_status) ==
    IF verdict = "ok"
    THEN Append(tl, IncidentTimeline(incident_id, "STATUS_CHANGE", old_status, new_status))
    ELSE tl

\* lines 365-371: the session loads the incident row; old_status is what it read
update_incident_status_query(w, user, incident_id, new_status) ==
    /\ Idle(w)
    /\ LET r == [ op |-> "status", user |-> user, incident_id |-> incident_id,
                  new_status |-> new_status, old_status |-> "" ]
       IN  IF incident_id \notin DOMAIN incidents THEN Respond(w, r, "404")
           ELSE LET old_status == incidents[incident_id].status
                IN  /\ \/ HasRoom
                       \/ validate_status_transition(old_status, new_status, role_of(user)) # "ok"
                    /\ Goto(w, [r EXCEPT !.old_status = old_status], "loaded")
    /\ UNCHANGED <<incidents, timeline, audit, clock, failures, outside_incidents>>

\* lines 372-404: validation against the status read, then the UPDATE of the row by
\* primary key (the columns the handler assigned) and the INSERT of the timeline row,
\* in one commit
update_incident_status_commit(w) ==
    /\ pc[w] = "loaded"
    /\ req[w].op = "status"
    /\ LET id == req[w].incident_id
           verdict == validate_status_transition(req[w].old_status, req[w].new_status,
                                                 role_of(req[w].user))
           stamps == verdict = "ok" /\ req[w].new_status # "IN_PROGRESS"
       IN  /\ incidents' = [incidents EXCEPT
                ![id] = status_update(verdict, @, req[w].new_status, clock)]
           /\ timeline' = status_change_timeline(verdict, timeline, id,
                req[w].old_status, req[w].new_status)
           /\ clock' = IF stamps THEN clock + 1 ELSE clock
           /\ IF verdict = "ok" THEN Goto(w, req[w], "committed")
              ELSE Respond(w, req[w], verdict)
    /\ UNCHANGED <<audit, failures, outside_incidents>>

\* lines 406-409
update_incident_status_audit(w) ==
    /\ pc[w] = "committed"
    /\ req[w].op = "status"
    /\ audit' = log_status_change(audit, req[w].incident_id,
                                  req[w].old_status, req[w].new_status)
    /\ Respond(w, req[w], "200")
    /\ UNCHANGED <<incidents, timeline, clock, failures, outside_incidents>>

----------------------------------------------------------------------------
(* add_comment: app/routes/incidents.py *)

add_comment_query(w, user, incident_id) ==
    /\ Idle(w)
    /\ HasRoom
    /\ LET r == [ op |-> "comment", user |-> user, incident_id |-> incident_id ]
       IN  IF incident_id \notin DOMAIN incidents THEN Respond(w, r, "404")
           ELSE Goto(w, r, "loaded")
    /\ UNCHANGED <<incidents, timeline, audit, clock, failures, outside_incidents>>

\* mutant: the comment also makes its author the current owner of the incident
add_comment_commit_owning(w) ==
    /\ pc[w] = "loaded"
    /\ req[w].op = "comment"
    /\ timeline' = Append(timeline,
            IncidentTimeline(req[w].incident_id, "COMMENT", "", ""))
    /\ incidents' = [incidents EXCEPT ![req[w].incident_id].current_owner_id = req[w].user]
    /\ Goto(w, req[w], "committed")
    /\ UNCHANGED <<audit, clock, failures, outside_incidents>>

add_comment_commit(w) ==
    /\ pc[w] = "loaded"
    /\ req[w].op = "comment"
    /\ timeline' = Append(timeline,
            IncidentTimeline(req[w].incident_id, "COMMENT", "", ""))
    /\ Goto(w, req[w], "committed")
    /\ UNCHANGED <<incidents, audit, clock, failures, outside_incidents>>

add_comment_audit(w) ==
    /\ pc[w] = "committed"
    /\ req[w].op = "comment"
    /\ audit' = log_audit(audit, "INCIDENT", req[w].incident_id, "COMMENT", <<>>)
    /\ Respond(w, req[w], "200")
    /\ UNCHANGED <<incidents, timeline, clock, failures, outside_incidents>>

----------------------------------------------------------------------------
(* update_incident: app/routes/incidents.py                                *)
(*                                                                         *)
(* Of the request the model keeps title (a basic field that is tracked in  *)
(* `changes`; description, severity and service_name are handled alike),   *)
(* impact_summary (a basic field that is not tracked; exception_text is     *)
(* handled alike), the impact fields downtime (financial_impact is handled *)
(* alike) and technical_decline_pct, and the two assignments. A nullable    *)
(* boolean or number is a sequence of at most one value: <<>> is None.      *)

\* UpdateIncidentRequest, line 49: Field(None, ge=0, le=100); percentages are whole
valid_pct(v) == v >= 0 /\ v <= 100

\* mutant: the percentage is not range-checked
validate_request_unbounded(r) == "ok"

\* the request model is validated before the handler runs
validate_request(r) ==
    IF r.technical_decline_pct # <<>> /\ ~valid_pct(r.technical_decline_pct[1])
    THEN "422" ELSE "ok"

\* mutant: support experts may update the impact fields too
can_update_impact_fields_experts(role) ==
    role \in {"SUPPORT_EXPERT", "INCIDENT_MANAGER", "ADMIN"}

can_update_impact_fields(role) == role \in {"INCIDENT_MANAGER", "ADMIN"}

\* lines 247-248
impact_updated(r) == r.downtime # <<>> \/ r.technical_decline_pct # <<>>

\* lines 250-255: what the handler body comes to
update_verdict(r) ==
    IF impact_updated(r) /\ ~can_update_impact_fields(role_of(r.user)) THEN "403" ELSE "ok"

\* lines 223-244
basic_fields(incident, r) ==
    [incident EXCEPT
        !.title = IF r.title # Unset THEN r.title ELSE @,
        !.impact_summary = IF r.impact_summary # Unset THEN r.impact_summary ELSE @]

\* lines 257-262
impact_fields(incident, r) ==
    [incident EXCEPT
        !.downtime = IF r.downtime # <<>> THEN r.downtime ELSE @,
        !.technical_decline_pct =
            IF r.technical_decline_pct # <<>> THEN r.technical_decline_pct ELSE @]

\* mutant: any existing user is taken as manager
assigns_manager_any_user(r) ==
    /\ r.incident_manager_id # None
    /\ r.incident_manager_id \in Users

\* lines 265-268: the manager is assigned only when the user exists and has the role
assigns_manager(r) ==
    /\ r.incident_manager_id # None
    /\ r.incident_manager_id \in Users
    /\ role_of(r.incident_manager_id) \in {"INCIDENT_MANAGER", "ADMIN"}

\* lines 281-284: the owner is assigned only when the user exists
assigns_owner(r) ==
    r.current_owner_id # None /\ r.current_owner_id \in Users

\* lines 264-295, the columns
assignments(incident, r) ==
    [incident EXCEPT
        !.incident_manager_id = IF assigns_manager(r) THEN r.incident_manager_id ELSE @,
        !.current_owner_id = IF assigns_owner(r) THEN r.current_owner_id ELSE @]

\* the keys of `changes` (lines 221-286)
changes_of(r) ==
    (IF r.title # Unset THEN {"title"} ELSE {})
        \cup (IF assigns_manager(r) THEN {"incident_manager"} ELSE {})
        \cup (IF assigns_owner(r) THEN {"current_owner"} ELSE {})

\* mutant: the basic fields assigned before the role check are written although
\* the request is refused
updated_incident_flushed(verdict, incident, r) ==
    IF verdict = "ok" THEN assignments(impact_fields(basic_fields(incident, r), r), r)
    ELSE basic_fields(incident, r)

\* lines 223-297: the columns the handler assigned are written by the commit at
\* line 297; the HTTPException of line 251 is raised before it, and the session is
\* closed with nothing written
updated_incident(verdict, incident, r) ==
    IF verdict = "ok" THEN assignments(impact_fields(basic_fields(incident, r), r), r)
    ELSE incident

\* lines 270-277 and 288-295: the ASSIGNMENT rows added to the session
assignment_timeline(verdict, tl, incident_id, r) ==
    LET manager == IF verdict = "ok" /\ assigns_manager(r)
                   THEN Append(tl, IncidentTimeline(incident_id, "ASSIGNMENT", "", ""))
                   ELSE tl
    IN  IF verdict = "ok" /\ assigns_owner(r)
        THEN Append(manager, IncidentTimeline(incident_id, "ASSIGNMENT", "", ""))
        ELSE manager

\* of `changes` the row keeps nothing: no handler reads it
log_incident_update(log, incident_id) ==
    log_audit(log, "INCIDENT", incident_id, "UPDATE", <<>>)

\* request validation, then lines 214-218: the session loads the incident row
update_incident_query(w, r) ==
    /\ Idle(w)
    /\ HasRoom
    /\ IF validate_request(r) # "ok" THEN Respond(w, r, validate_request(r))
       ELSE IF r.incident_id \notin DOMAIN incidents THEN Respond(w, r, "404")
       ELSE Goto(w, r, "loaded")
    /\ UNCHANGED <<incidents, timeline, audit, clock, failures, outside_incidents>>

\* lines 220-298: the assignments, the role check, and the commit of the columns
\* assigned together with the ASSIGNMENT rows
update_incident_commit(w) ==
    /\ pc[w] = "loaded"
    /\ req[w].op = "update"
    /\ LET id == req[w].incident_id
           verdict == update_verdict(req[w])
       IN  /\ incidents' = [incidents EXCEPT ![id] = updated_incident(verdict, @, req[w])]
           /\ timeline' = assignment_timeline(verdict, timeline, id, req[w])
           /\ IF verdict = "ok" THEN Goto(w, req[w], "committed")
              ELSE Respond(w, req[w], verdict)
    /\ UNCHANGED <<audit, clock, failures, outside_incidents>>

\* lines 300-304
update_incident_audit(w) ==
    /\ pc[w] = "committed"
    /\ req[w].op = "update"
    /\ audit' = IF changes_of(req[w]) # {}
                THEN log_incident_update(audit, req[w].incident_id)
                ELSE audit
    /\ Respond(w, req[w], "200")
    /\ UNCHANGED <<incidents, timeline, clock, failures, outside_incidents>>

----------------------------------------------------------------------------
(* create_corrective_action, update_corrective_action:                     *)
(* app/routes/corrective_actions.py                                        *)

\* the users corrective actions are given to
Owners == {3, 4}

CorrectiveAction(incident_id, owner_user_id) ==
    [ incident_id |-> incident_id,
      owner_user_id |-> owner_user_id,
      status |-> "OPEN",
      completed_at |-> None ]

ActionRoom == Len(AuditRows("CORRECTIVE_ACTION")) < MaxActionAudit

\* lines 38-58: the incident must exist and be RESOLVED or CLOSED, due_date must parse
create_corrective_action_query(w, user, incident_id, owner_user_id, due_date_valid) ==
    /\ Idle(w)
    /\ ActionRoom
    /\ Len(corrective_actions) < MaxActions
    /\ LET r == [ op |-> "create_action", user |-> user, incident_id |-> incident_id,
                  owner_user_id |-> owner_user_id, action_id |-> None ]
       IN  IF incident_id \notin DOMAIN incidents THEN Respond(w, r, "404")
           ELSE IF incidents[incident_id].status \notin {"RESOLVED", "CLOSED"}
                THEN Respond(w, r, "400")
           ELSE IF ~due_date_valid THEN Respond(w, r, "400")
           ELSE Goto(w, r, "loaded")
    /\ UNCHANGED <<incidents, timeline, audit, clock, failures, corrective_actions, reminders, advisory, postmortems, accounts>>

\* lines 60-72
create_corrective_action_commit(w) ==
    /\ pc[w] = "loaded"
    /\ req[w].op = "create_action"
    /\ corrective_actions' = Append(corrective_actions,
            CorrectiveAction(req[w].incident_id, req[w].owner_user_id))
    /\ Goto(w, [req[w] EXCEPT !.action_id = Len(corrective_actions) + 1], "committed")
    /\ UNCHANGED <<incidents, timeline, audit, clock, failures, reminders, advisory, postmortems, accounts>>

\* lines 74-77
create_corrective_action_audit(w) ==
    /\ pc[w] = "committed"
    /\ req[w].op = "create_action"
    /\ audit' = log_audit(audit, "CORRECTIVE_ACTION", req[w].action_id, "CREATE", <<>>)
    /\ Respond(w, req[w], "200")
    /\ UNCHANGED <<incidents, timeline, clock, failures, corrective_actions, reminders, advisory, postmortems, accounts>>

\* lines 125-131 in the session: the status is assigned, then the comparison with
\* CorrectiveActionStatus.COMPLETED is evaluated; the enum has no such member, so
\* the attribute lookup raises AttributeError ("500") whenever a status is given
update_status_outcome(status) ==
    IF status = Unset THEN "ok"
    ELSE IF "COMPLETED" \in CorrectiveActionStatus THEN "ok"
    ELSE "500"

\* lines 116-131: the fields assigned in the session
updated_action(action, owner_user_id, status, now) ==
    LET a == IF owner_user_id = None THEN action
             ELSE [action EXCEPT !.owner_user_id = owner_user_id]
    IN  IF status = Unset THEN a
        ELSE IF status = "COMPLETED" /\ a.completed_at = None
             THEN [a EXCEPT !.status = status, !.completed_at = now]
        ELSE [a EXCEPT !.status = status]

\* lines 107-131
update_corrective_action_query(w, user, action_id, owner_user_id, status) ==
    /\ Idle(w)
    /\ ActionRoom
    /\ LET r == [ op |-> "update_action", user |-> user, action_id |-> action_id,
                  owner_user_id |-> owner_user_id, status |-> status ]
       IN  IF action_id \notin DOMAIN corrective_actions THEN Respond(w, r, "404")
           ELSE IF update_status_outcome(status) # "ok"
                THEN Respond(w, r, update_status_outcome(status))
           ELSE Goto(w, r, "loaded")
    /\ UNCHANGED <<incidents, timeline, audit, clock, failures, corrective_actions, reminders, advisory, postmortems, accounts>>

\* lines 133-134
update_corrective_action_commit(w) ==
    /\ pc[w] = "loaded"
    /\ req[w].op = "update_action"
    /\ corrective_actions' = [corrective_actions EXCEPT ![req[w].action_id] =
            updated_action(@, req[w].owner_user_id, req[w].status, clock)]
    /\ Goto(w, req[w], "committed")
    /\ UNCHANGED <<incidents, timeline, audit, clock, failures, reminders, advisory, postmortems, accounts>>

\* lines 136-139
update_corrective_action_audit(w) ==
    /\ pc[w] = "committed"
    /\ req[w].op = "update_action"
    /\ audit' = log_audit(audit, "CORRECTIVE_ACTION", req[w].action_id, "UPDATE", <<>>)
    /\ Respond(w, req[w], "200")
    /\ UNCHANGED <<incidents, timeline, clock, failures, corrective_actions, reminders, advisory, postmortems, accounts>>

----------------------------------------------------------------------------
(* ReminderScheduler: app/services/scheduler.py *)

\* the threads that can execute send_reminders: the job thread of the scheduler
\* (cron trigger) and a caller of send_test_reminder
Threads == {"cron", "manual"}

NoSweep == [ at |-> "idle", sent |-> 0, failed |-> 0 ]

\* action.owner and action.owner.email (line 103): every user of the users table
\* has an email address
has_email(owner_user_id) == owner_user_id \in Users

\* lines 91-96: the filter names CorrectiveActionStatus.OPEN and
\* CorrectiveActionStatus.IN_PROGRESS; a name the enum does not have raises
\* AttributeError before the query runs
query_raises == ~({"OPEN", "IN_PROGRESS"} \subseteq CorrectiveActionStatus)

\* lines 91-96: the ids of the actions the query returns
open_actions ==
    LET P(a) == corrective_actions[a].status \in {"OPEN", "IN_PROGRESS"}
        ids == [a \in DOMAIN corrective_actions |-> a]
    IN  SelectSeq(ids, P)

\* lines 101-135: the loop over the actions.  ok: the actions whose email is sent,
\* bad: the actions for which the commit of log_audit raises, which the except of
\* line 139 catches, ending the run.
RECURSIVE remind(_, _, _, _)
remind(todo, ok, bad, run) ==
    IF todo = <<>> THEN run
    ELSE LET a == Head(todo)
             owner == corrective_actions[a].owner_user_id
             success == a \in ok
             sent == [run EXCEPT
                        !.outbox = Append(@, [ action_id |-> a, success |-> success ]),
                        !.sent = IF success THEN @ + 1 ELSE @,
                        !.failed = IF success THEN @ ELSE @ + 1]
         IN  IF ~has_email(owner) THEN remind(Tail(todo), ok, bad, run)
             ELSE IF a \in bad THEN sent
             ELSE remind(Tail(todo), ok, bad,
                    [sent EXCEPT !.audit = log_audit(@, "CORRECTIVE_ACTION", a, "UPDATE",
                                                     <<success, owner>>)])

\* lines 52-65
scheduler_start ==
    /\ ~scheduler_running
    /\ scheduler_running' = TRUE
    /\ UNCHANGED <<incidents, timeline, audit, clock, pc, req, resp, failures,
                   corrective_actions, sweep, outbox, advisory, postmortems, accounts>>

\* lines 67-79: shutdown(wait=False) does not wait for a job that is running
scheduler_shutdown ==
    /\ scheduler_running
    /\ scheduler_running' = FALSE
    /\ UNCHANGED <<incidents, timeline, audit, clock, pc, req, resp, failures,
                   corrective_actions, sweep, outbox, advisory, postmortems, accounts>>

\* lines 81-88: thread t enters send_reminders.  The scheduler starts its job only
\* while no instance of the job is running; send_test_reminder (lines 144-147)
\* calls send_reminders directly.
send_reminders_begin(t) ==
    /\ sweep[t].at = "idle"
    /\ t = "cron" => scheduler_running
    /\ sweep' = [sweep EXCEPT ![t] = [ at |-> "running", sent |-> 0, failed |-> 0 ]]
    /\ UNCHANGED <<incidents, timeline, audit, clock, pc, req, resp, failures,
                   corrective_actions, outbox, scheduler_running, advisory, postmortems, accounts>>

\* lines 89-142: the query, the loop and the end of the run
send_reminders_end(t, ok, bad) ==
    /\ sweep[t].at = "running"
    /\ LET start == [ outbox |-> outbox, audit |-> audit, sent |-> 0, failed |-> 0 ]
           run == IF query_raises THEN start ELSE remind(open_actions, ok, bad, start)
       IN  /\ outbox' = run.outbox
           /\ audit' = run.audit
           /\ sweep' = [sweep EXCEPT ![t] =
                    [ at |-> "idle", sent |-> run.sent, failed |-> run.failed ]]
    /\ UNCHANGED <<incidents, timeline, clock, pc, req, resp, failures,
                   corrective_actions, scheduler_running, advisory, postmortems, accounts>>

----------------------------------------------------------------------------
(* create_postmortem: app/routes/postmortems.py *)

can_edit_postmortem(role) == role \in {"INCIDENT_MANAGER", "ADMIN"}

\* Postmortem(...), lines 64-70; the three texts are written once and never read
\* by a handler
Postmortem(incident_id, user) ==
    [ incident_id |-> incident_id, created_by_id |-> user ]

PostmortemRoom == Len(AuditRows("POSTMORTEM")) < MaxPostmortemAudit

\* lines 38-61: what the checks of the handler come to, in their order
create_postmortem_verdict(user, incident_id) ==
    IF ~can_edit_postmortem(role_of(user)) THEN "403"
    ELSE IF incident_id \notin DOMAIN incidents THEN "404"
    ELSE IF incidents[incident_id].status \notin {"RESOLVED", "CLOSED"} THEN "400"
    ELSE IF \E k \in DOMAIN postmortems : postmortems[k].incident_id = incident_id
         THEN "400"
    ELSE "ok"

create_postmortem_query(w, user, incident_id) ==
    /\ Idle(w)
    /\ PostmortemRoom
    /\ LET r == [ op |-> "postmortem", user |-> user, incident_id |-> incident_id,
                  postmortem_id |-> None ]
           verdict == create_postmortem_verdict(user, incident_id)
       IN  IF verdict = "ok" THEN Goto(w, r, "loaded") ELSE Respond(w, r, verdict)
    /\ UNCHANGED <<incidents, timeline, audit, clock, failures, corrective_actions,
                   reminders, advisory, postmortems, accounts>>

\* mutant: the column incident_id is not declared unique
unique_incident_id_undeclared(rows, incident_id) == TRUE

\* models/postmortem.py line 16, unique=True: the INSERT of a second row with the
\* same incident_id violates the constraint
unique_incident_id(rows, incident_id) ==
    \A k \in DOMAIN rows : rows[k].incident_id # incident_id

\* lines 72-74: the INSERT and its commit; the IntegrityError of a refused INSERT is
\* not caught and the request is answered 500
create_postmortem_commit(w) ==
    /\ pc[w] = "loaded"
    /\ req[w].op = "postmortem"
    /\ IF unique_incident_id(postmortems, req[w].incident_id)
       THEN /\ postmortems' = Append(postmortems,
                    Postmortem(req[w].incident_id, req[w].user))
            /\ Goto(w, [req[w] EXCEPT !.postmortem_id = Len(postmortems) + 1], "committed")
       ELSE /\ UNCHANGED postmortems
            /\ Respond(w, req[w], "500")
    /\ UNCHANGED <<incidents, timeline, audit, clock, failures, corrective_actions,
                   reminders, advisory, accounts>>

\* lines 76-79
create_postmortem_audit(w) ==
    /\ pc[w] = "committed"
    /\ req[w].op = "postmortem"
    /\ audit' = log_audit(audit, "POSTMORTEM", req[w].postmortem_id, "CREATE", <<>>)
    /\ Respond(w, req[w], "200")
    /\ UNCHANGED <<incidents, timeline, clock, failures, corrective_actions,
                   reminders, advisory, postmortems, accounts>>

----------------------------------------------------------------------------
(* Authentication: app/routes/auth.py *)

\* users who log in: the incident manager and the SME
Accounts == {2, 3}

\* DBSession(...), lines 44-48; the id of a session is its index, a deleted row
\* keeps its index
DBSession(user_id) == [ user_id |-> user_id, expired |-> FALSE, deleted |-> FALSE ]

\* get_session, lines 54-67: the row when it exists and has not expired
get_session(session_id) ==
    IF session_id \in DOMAIN sessions
          /\ ~sessions[session_id].deleted /\ ~sessions[session_id].expired
    THEN session_id ELSE None

\* get_session, lines 62-65: an expired row is deleted when it is presented
sessions_after_get(session_id) ==
    IF session_id \in DOMAIN sessions /\ sessions[session_id].expired
    THEN [sessions EXCEPT ![session_id].deleted = TRUE]
    ELSE sessions

\* mutant: the active flag of the user is not looked at
get_current_user_any(session_id) ==
    IF get_session(session_id) = None THEN None
    ELSE sessions[session_id].user_id

\* get_current_user, lines 76-106: the user of the session, None where the
\* function raises 401
get_current_user(session_id) ==
    IF get_session(session_id) = None THEN None
    ELSE IF ~active[sessions[session_id].user_id] THEN None
    ELSE sessions[session_id].user_id

\* login, lines 119-167
login(w, user, password_ok) ==
    /\ Idle(w)
    /\ LET r == [ op |-> "login", user |-> user ]
       IN  IF ~password_ok \/ ~active[user]
           THEN /\ Respond(w, r, "401")
                /\ UNCHANGED sessions
           ELSE /\ Len(sessions) < MaxSessions
                /\ sessions' = Append(sessions, DBSession(user))
                /\ Respond(w, r, "200")
    /\ UNCHANGED <<incidents, timeline, audit, clock, failures, corrective_actions,
                   reminders, advisory, postmortems, active>>

\* logout and delete_session, lines 69-74 and 170-187
logout(w, session_id) ==
    /\ Idle(w)
    /\ sessions' = IF session_id \in DOMAIN sessions
                   THEN [sessions EXCEPT ![session_id].deleted = TRUE]
                   ELSE sessions
    /\ Respond(w, [ op |-> "logout", session |-> session_id ], "200")
    /\ UNCHANGED <<incidents, timeline, audit, clock, failures, corrective_actions,
                   reminders, advisory, postmortems, active>>

\* time passes expires_at (create_session, line 42)
session_expires(session_id) ==
    /\ session_id \in DOMAIN sessions
    /\ ~sessions[session_id].expired
    /\ sessions' = [sessions EXCEPT ![session_id].expired = TRUE]
    /\ UNCHANGED <<incidents, timeline, audit, clock, pc, req, resp, failures,
                   corrective_actions, reminders, advisory, postmortems, active>>

\* the column users.active is written in the database: no route writes it
set_active(user, value) ==
    /\ active[user] # value
    /\ active' = [active EXCEPT ![user] = value]
    /\ UNCHANGED <<incidents, timeline, audit, clock, pc, req, resp, failures,
                   corrective_actions, reminders, advisory, postmortems, sessions>>

\* get_current_user raises: the request is answered 401 before the handler reads
\* or writes anything else
unauthenticated(w, session_id) ==
    /\ Idle(w)
    /\ sessions' = sessions_after_get(session_id)
    /\ Respond(w, [ op |-> "unauthenticated", session |-> session_id ], "401")
    /\ UNCHANGED <<incidents, timeline, audit, clock, failures, corrective_actions,
                   reminders, advisory, postmortems, active>>

\* a request that presents session_id to create_incident, update_incident_status
\* or add_comment: each begins with get_current_user(request, db)
request_with_session(w, session_id) ==
    LET user == get_current_user(session_id)
    IN  IF user = None THEN unauthenticated(w, session_id)
        ELSE \/ /\ Len(incidents) < MaxIncidents
                /\ create_incident_query(w, user, 1, None)
             \/ \E i \in DOMAIN incidents :
                    update_incident_status_query(w, user, i, "ACKNOWLEDGED")
             \/ \E i \in DOMAIN incidents : add_comment_query(w, user, i)

----------------------------------------------------------------------------
(* A handler that fails between its steps (the process is killed, the     *)
(* connection is lost, a commit raises): get_db closes the session, what  *)
(* was not committed is rolled back, what was committed stays.            *)

handler_fails(w) ==
    /\ pc[w] \in {"loaded", "committed"}
    /\ failures < MaxFailures
    /\ failures' = failures + 1
    /\ Respond(w, req[w], "500")
    /\ UNCHANGED <<incidents, timeline, audit, clock, outside_incidents>>

----------------------------------------------------------------------------
(* Specifications *)

\* the state after startup (main.py lifespan: tables created, database seeded)
Start(enabled) ==
    /\ incidents = <<>>
    /\ timeline = <<>>
    /\ audit = <<>>
    /\ clock = 1
    /\ pc = [w \in Workers |-> "idle"]
    /\ req = [w \in Workers |-> NoRequest]
    /\ resp = [w \in Workers |-> ""]
    /\ failures = 0
    /\ corrective_actions = <<>>
    /\ sweep = [t \in Threads |-> NoSweep]
    /\ outbox = <<>>
    /\ scheduler_running = FALSE
    /\ ai_enabled = enabled
    /\ ai_similar_incidents = <<>>
    /\ postmortems = <<>>
    /\ active = [u \in Users |-> TRUE]
    /\ sessions = <<>>

\* the default configuration: GEMINI_API_KEY is empty, the advisory is disabled
Init == Start(FALSE)

IncidentIds == 1 .. MaxIncidents

\* the requests a worker may be given and the steps of their handlers
create_incident_request(w, limit) ==
    /\ Len(incidents) < limit
    /\ \E u \in Reporters, b \in {1, 4}, m \in {None, 3} : create_incident_query(w, u, b, m)

create_incident(w) ==
    \/ create_incident_request(w, MaxIncidents)
    \/ create_incident_commit(w)
    \/ create_incident_audit(w)

update_incident_status(w, users) ==
    \/ \E u \in users, i \in IncidentIds, s \in IncidentStatus :
            update_incident_status_query(w, u, i, s)
    \/ update_incident_status_commit(w)
    \/ update_incident_status_audit(w)

add_comment(w) ==
    \/ \E u \in Reporters, i \in IncidentIds : add_comment_query(w, u, i)
    \/ add_comment_commit(w)
    \/ add_comment_audit(w)

ActionIds == 1 .. MaxActions

create_corrective_action(w, users) ==
    \/ \E u \in users, i \in IncidentIds, o \in Owners, d \in BOOLEAN :
            create_corrective_action_query(w, u, i, o, d)
    \/ create_corrective_action_commit(w)
    \/ create_corrective_action_audit(w)

update_corrective_action(w, users) ==
    \/ \E u \in users, a \in ActionIds, o \in {None} \cup Owners,
          s \in {Unset} \cup CorrectiveActionStatus :
            update_corrective_action_query(w, u, a, o, s)
    \/ update_corrective_action_commit(w)
    \/ update_corrective_action_audit(w)

\* one process: a handler runs from its first line to its response before the next starts
Next ==
    \/ create_incident(MainWorker)
    \/ update_incident_status(MainWorker, Users)
    \/ add_comment(MainWorker)

Spec == Init /\ [][Next]_vars

\* one process whose handlers may fail between their steps
NextFailures == Next \/ handler_fails(MainWorker)

SpecFailures == Init /\ [][NextFailures]_vars

\* the users whose requests the worker processes race on
RacingUsers == {2, 4}

\* several worker processes on one database: handlers interleave at their database steps
NextWorkers ==
    \E w \in Workers :
        \/ create_incident(w)
        \/ update_incident_status(w, RacingUsers)

SpecWorkers == Init /\ [][NextWorkers]_vars

\* the user who drives an incident through its workflow
Managers == {2}

\* one process, the workflow of an incident and its corrective actions
NextActions ==
    \/ create_incident(MainWorker)
    \/ update_incident_status(MainWorker, Managers)
    \/ create_corrective_action(MainWorker, Managers)
    \/ update_corrective_action(MainWorker, Managers)

SpecActions == Init /\ [][NextActions]_vars

send_reminders(t) ==
    \/ send_reminders_begin(t)
    \/ \E ok \in SUBSET ActionIds, bad \in SUBSET ActionIds : send_reminders_end(t, ok, bad)

\* one process with its reminder scheduler, and a caller of send_test_reminder
NextReminders ==
    \/ create_incident(MainWorker)
    \/ update_incident_status(MainWorker, Managers)
    \/ create_corrective_action(MainWorker, Managers)
    \/ scheduler_start
    \/ scheduler_shutdown
    \/ \E t \in Threads : send_reminders(t)

SpecReminders == Init /\ [][NextReminders]_vars

\* the advisory enabled (GEMINI_API_KEY set) or disabled
InitAdvisory == \E enabled \in BOOLEAN : Start(enabled)

\* one process; incidents are created while earlier ones are worked on, so that
\* the advisory has history to search
NextAdvisory ==
    \/ create_incident_request(MainWorker, MaxIncidents + MaxHistory)
    \/ create_incident_commit(MainWorker)
    \/ create_incident_audit(MainWorker)
    \/ \E o \in AdvisoryOutcomes : create_incident_advisory(MainWorker, o)
    \/ update_incident_status(MainWorker, Managers)

SpecAdvisory == InitAdvisory /\ [][NextAdvisory]_vars

\* percentages sent: below the range, its two ends, above it
Percentages == {0 - 1, 0, 100, 150}

\* a request body that sets nothing
NoFields ==
    [ title |-> Unset, impact_summary |-> Unset, downtime |-> <<>>,
      technical_decline_pct |-> <<>>, incident_manager_id |-> None,
      current_owner_id |-> None ]

\* request bodies: basic fields alone, impact fields alone, basic and impact fields
\* together, assignments to a manager (1), to a user who is none (3), to an owner
Bodies ==
    { [NoFields EXCEPT !.title = "edited"],
      [NoFields EXCEPT !.impact_summary = "outage"],
      [NoFields EXCEPT !.downtime = <<TRUE>>],
      [NoFields EXCEPT !.title = "edited", !.impact_summary = "outage",
                       !.downtime = <<TRUE>>, !.current_owner_id = 4],
      [NoFields EXCEPT !.incident_manager_id = 1, !.current_owner_id = 4],
      [NoFields EXCEPT !.incident_manager_id = 3] }
    \cup { [NoFields EXCEPT !.technical_decline_pct = <<v>>] : v \in Percentages }
    \cup { [NoFields EXCEPT !.title = "edited", !.technical_decline_pct = <<v>>] :
                v \in Percentages }

UpdateIncidentRequest ==
    { [ op |-> "update", user |-> u, incident_id |-> i,
        title |-> b.title, impact_summary |-> b.impact_summary,
        downtime |-> b.downtime, technical_decline_pct |-> b.technical_decline_pct,
        incident_manager_id |-> b.incident_manager_id,
        current_owner_id |-> b.current_owner_id ] :
        u \in Users, i \in IncidentIds, b \in Bodies }

update_incident(w) ==
    \/ \E r \in UpdateIncidentRequest : update_incident_query(w, r)
    \/ update_incident_commit(w)
    \/ update_incident_audit(w)

\* one process: incidents are created, updated by users of every role, and moved
\* along the chain
NextUpdate ==
    \/ create_incident(MainWorker)
    \/ update_incident(MainWorker)
    \/ update_incident_status(MainWorker, Managers)

SpecUpdate == Init /\ [][NextUpdate]_vars

\* incident_manager_id as sent: none, the admin, the manager, an SME, a support
\* user, an id no user has
ManagerIds == {None, 1, 2, 3, 4, Cardinality(Users) + 1}

\* updates that name a manager, alone or with a title
ManagerRequests ==
    { [ op |-> "update", user |-> u, incident_id |-> i,
        title |-> t, impact_summary |-> Unset, downtime |-> <<>>,
        technical_decline_pct |-> <<>>, incident_manager_id |-> m,
        current_owner_id |-> None ] :
        u \in Reporters, i \in IncidentIds, t \in {Unset, "edited"},
        m \in ManagerIds \ {None} }

\* one process: incidents are created with a manager and their manager is reassigned
NextManagers ==
    \/ /\ Len(incidents) < MaxIncidents
       /\ \E u \in Reporters, b \in Banks, m \in ManagerIds :
                create_incident_query(MainWorker, u, b, m)
    \/ create_incident_commit(MainWorker)
    \/ create_incident_audit(MainWorker)
    \/ \E r \in ManagerRequests : update_incident_query(MainWorker, r)
    \/ update_incident_commit(MainWorker)
    \/ update_incident_audit(MainWorker)

SpecManagers == Init /\ [][NextManagers]_vars

create_postmortem(w) ==
    \/ \E u \in Users, i \in IncidentIds : create_postmortem_query(w, u, i)
    \/ create_postmortem_commit(w)
    \/ create_postmortem_audit(w)

\* two requests at a time for postmortems, while one of the workers creates the
\* incident and a manager moves it along the chain
NextPostmortems ==
    \/ create_incident(MainWorker)
    \/ update_incident_status(MainWorker, Managers)
    \/ \E w \in Workers : create_postmortem(w)

SpecPostmortems == Init /\ [][NextPostmortems]_vars

\* one process: users log in and out, sessions expire, accounts are deactivated
\* and reactivated, and requests present a session, none (0) or an id no session has
NextAccounts ==
    \/ \E u \in Accounts, ok \in BOOLEAN : login(MainWorker, u, ok)
    \/ \E s \in 1 .. MaxSessions : logout(MainWorker, s)
    \/ \E s \in 1 .. MaxSessions : session_expires(s)
    \/ \E u \in Accounts, v \in BOOLEAN : set_active(u, v)
    \/ \E s \in 0 .. MaxSessions : request_with_session(MainWorker, s)
    \/ create_incident_commit(MainWorker)
    \/ create_incident_audit(MainWorker)
    \/ update_incident_status_commit(MainWorker)
    \/ update_incident_status_audit(MainWorker)
    \/ add_comment_commit(MainWorker)
    \/ add_comment_audit(MainWorker)

SpecAccounts == Init /\ [][NextAccounts]_vars

\* one process running every handler that writes the timeline or the audit log
NextHistory ==
    \/ create_incident_request(MainWorker, MaxIncidents)
    \/ create_incident_commit(MainWorker)
    \/ create_incident_audit(MainWorker)
    \/ \E o \in AdvisoryOutcomes : create_incident_advisory(MainWorker, o)
    \/ update_incident_status(MainWorker, Managers)
    \/ add_comment(MainWorker)
    \/ \E r \in ManagerRequests :
            r.incident_manager_id = 1 /\ update_incident_query(MainWorker, r)
    \/ update_incident_commit(MainWorker)
    \/ update_incident_audit(MainWorker)
    \/ \E u \in Managers, i \in IncidentIds :
            create_corrective_action_query(MainWorker, u, i, 3, TRUE)
    \/ create_corrective_action_commit(MainWorker)
    \/ create_corrective_action_audit(MainWorker)
    \/ \E u \in Managers, a \in {1} :
            update_corrective_action_query(MainWorker, u, a, 4, Unset)
    \/ update_corrective_action_commit(MainWorker)
    \/ update_corrective_action_audit(MainWorker)
    \/ \E u \in Managers, i \in IncidentIds : create_postmortem_query(MainWorker, u, i)
    \/ create_postmortem_commit(MainWorker)
    \/ create_postmortem_audit(MainWorker)

SpecHistory == InitAdvisory /\ [][NextHistory]_vars

\* several worker processes, the workflow of an incident and its corrective actions
NextWorkersActions ==
    \/ create_incident(MainWorker)
    \/ create_corrective_action(MainWorker, Managers)
    \/ \E w \in Workers : update_incident_status(w, Managers)

SpecWorkersActions == Init /\ [][NextWorkersActions]_vars

----------------------------------------------------------------------------
(* Vocabulary of the properties *)

\* the forward chain of the workflow
Chain == <<"OPEN", "ACKNOWLEDGED", "IN_PROGRESS", "RESOLVED", "CLOSED">>
Position(s) == CHOOSE k \in 1 .. Len(Chain) : Chain[k] = s
Adjacent(old, new) == Position(new) = Position(old) + 1

Rejections == {"400", "403", "404"}

\* worker w has answered a change_status request that found its incident
StatusAnswered(w) ==
    /\ pc[w] = "done"
    /\ req[w].op = "status"
    /\ resp[w] \in {"200", "400", "403"}

\* the rows of a table that satisfy P, in insertion order
Rows(table, P(_)) == SelectSeq(table, P)

TimelineOf(i, kind) ==
    LET P(e) == e.incident_id = i /\ e.event_type = kind IN Rows(timeline, P)

AuditOf(i, kind) ==
    LET P(a) == a.entity_type = "INCIDENT" /\ a.entity_id = i /\ a.action = kind
    IN  Rows(audit, P)

Quiescent == \A w \in Workers : pc[w] \in {"idle", "done"}

----------------------------------------------------------------------------
(* C1 *)

\* C1: whenever the status of an incident changes, it changes to the immediate
\* successor of the status it had in the chain OPEN, ACKNOWLEDGED, IN_PROGRESS,
\* RESOLVED, CLOSED: no step is skipped or reversed and CLOSED is never left.
C1_ForwardChain ==
    [][\A i \in DOMAIN incidents :
        incidents'[i].status # incidents[i].status =>
            Adjacent(incidents[i].status, incidents'[i].status)]_vars

----------------------------------------------------------------------------
(* C2 *)

\* C2: a change_status request for an adjacent pair of the chain is accepted into
\* ACKNOWLEDGED exactly when the actor is SUPPORT_L2, SUPPORT_EXPERT,
\* INCIDENT_MANAGER or ADMIN, into RESOLVED or CLOSED exactly when the actor is
\* INCIDENT_MANAGER or ADMIN, and is answered 403 Forbidden otherwise.
C2_RoleGate ==
    \A w \in Workers :
        (StatusAnswered(w) /\ Adjacent(req[w].old_status, req[w].new_status)) =>
            LET role == role_of(req[w].user)
                allowed ==
                    CASE req[w].new_status = "ACKNOWLEDGED" ->
                            {"SUPPORT_L2", "SUPPORT_EXPERT", "INCIDENT_MANAGER", "ADMIN"}
                      [] req[w].new_status \in {"RESOLVED", "CLOSED"} ->
                            {"INCIDENT_MANAGER", "ADMIN"}
                      [] OTHER -> UserRoles
            IN  /\ (resp[w] = "200") <=> (role \in allowed)
                /\ (resp[w] # "200") => (resp[w] = "403")

\* an SME was refused OPEN -> ACKNOWLEDGED with 403
C2_Witness ==
    \E w \in Workers :
        /\ StatusAnswered(w)
        /\ role_of(req[w].user) = "SME"
        /\ req[w].old_status = "OPEN"
        /\ req[w].new_status = "ACKNOWLEDGED"
        /\ resp[w] = "403"

----------------------------------------------------------------------------
(* C3 *)

\* C3: a change_status request whose (current, target) pair is not adjacent in the
\* chain is answered 400 InvalidTransition whatever the actor's role.
C3_InvalidTransition ==
    \A w \in Workers :
        (StatusAnswered(w) /\ ~Adjacent(req[w].old_status, req[w].new_status)) =>
            resp[w] = "400"

\* an SME, who may neither acknowledge nor resolve, got 400 for ACKNOWLEDGED -> RESOLVED
C3_Witness ==
    \E w \in Workers :
        /\ StatusAnswered(w)
        /\ role_of(req[w].user) = "SME"
        /\ req[w].old_status = "ACKNOWLEDGED"
        /\ req[w].new_status = "RESOLVED"
        /\ resp[w] = "400"

----------------------------------------------------------------------------
(* C4 *)

\* C4 as stated: in the end-to-end scenario (incident created, then acknowledged:
\* status ACKNOWLEDGED, timeline length 2) the SUPPORT_L2 user's attempt to resolve
\* the incident is answered 403 Forbidden.
C4_AsStated ==
    \A w \in Workers :
        (/\ StatusAnswered(w)
         /\ role_of(req[w].user) = "SUPPORT_L2"
         /\ req[w].old_status = "ACKNOWLEDGED"
         /\ req[w].new_status = "RESOLVED"
         /\ Len(timeline) = 2) => resp[w] = "403"

\* C4 amended: in the end-to-end scenario the SUPPORT_L2 user's attempt to resolve
\* the ACKNOWLEDGED incident (timeline length 2) is answered 400 InvalidTransition
\* and leaves the incident, the timeline and the audit log unchanged.
C4_Amended ==
    [][\A w \in Workers :
        (/\ pc[w] = "loaded"
         /\ pc'[w] = "done"
         /\ req[w].op = "status"
         /\ role_of(req[w].user) = "SUPPORT_L2"
         /\ req[w].old_status = "ACKNOWLEDGED"
         /\ req[w].new_status = "RESOLVED"
         /\ incidents[req[w].incident_id].status = "ACKNOWLEDGED"
         /\ Len(TimelineOf(req[w].incident_id, "STATUS_CHANGE")) = 1
         /\ Len(timeline) = 2)
        => (resp'[w] = "400" /\ UNCHANGED <<incidents, timeline, audit>>)]_vars

\* the SUPPORT_L2 user's resolve attempt on the ACKNOWLEDGED incident got its answer
C4_Witness ==
    \E w \in Workers :
        /\ StatusAnswered(w)
        /\ role_of(req[w].user) = "SUPPORT_L2"
        /\ req[w].old_status = "ACKNOWLEDGED"
        /\ req[w].new_status = "RESOLVED"
        /\ incidents[req[w].incident_id].status = "ACKNOWLEDGED"
        /\ Len(timeline) = 2
        /\ resp[w] = "400"

----------------------------------------------------------------------------
(* C5 *)

\* this step answers a change_status request of worker w with a rejection
StatusRejectedNow(w) ==
    /\ pc[w] # "done"
    /\ pc'[w] = "done"
    /\ req'[w].op = "status"
    /\ resp'[w] \in Rejections

\* C5: the step that rejects a change_status request (400, 403 or 404) leaves every
\* incident row (status and timestamps), the timeline and the audit log as they were.
C5_RejectionMutatesNothing ==
    [][\A w \in Workers :
        StatusRejectedNow(w) => UNCHANGED <<incidents, timeline, audit>>]_vars

\* a request was refused with 403 while the incident exists and has history
C5_Witness ==
    \E w \in Workers :
        /\ StatusAnswered(w)
        /\ resp[w] = "403"
        /\ req[w].old_status = "IN_PROGRESS"
        /\ incidents[req[w].incident_id].status = "IN_PROGRESS"
        /\ Len(timeline) = 3

----------------------------------------------------------------------------
(* C6 *)

\* C6: no incident has two STATUS_CHANGE timeline rows with the same old value: of
\* two change_status requests that read the same current status at most one commits.
C6_OneTransitionPerStatus ==
    \A j, k \in DOMAIN timeline :
        (/\ j < k
         /\ timeline[j].event_type = "STATUS_CHANGE"
         /\ timeline[k].event_type = "STATUS_CHANGE"
         /\ timeline[j].incident_id = timeline[k].incident_id)
        => timeline[j].old_value # timeline[k].old_value

----------------------------------------------------------------------------
(* C7 *)

AuditedKinds == {"CREATE", "STATUS_CHANGE", "COMMENT"}

\* C7: when no handler is running, every committed CREATE, STATUS_CHANGE and COMMENT
\* timeline row of an incident has its paired audit row, also after a handler failed
\* between its steps.
C7_AuditWithMutation ==
    Quiescent =>
        \A i \in DOMAIN incidents, kind \in AuditedKinds :
            Len(AuditOf(i, kind)) = Len(TimelineOf(i, kind))

----------------------------------------------------------------------------
(* C8 *)

Last(seq) == seq[Len(seq)]

\* the status the STATUS_CHANGE rows of incident i say it has
StatusByTimeline(i) ==
    LET changes == TimelineOf(i, "STATUS_CHANGE")
    IN  IF changes = <<>> THEN "OPEN" ELSE Last(changes).new_value

EnteredByTimeline(i, status) ==
    \E k \in DOMAIN timeline :
        /\ timeline[k].incident_id = i
        /\ timeline[k].event_type = "STATUS_CHANGE"
        /\ timeline[k].new_value = status

\* C8: in every committed state the status of an incident is the new value of its
\* latest STATUS_CHANGE timeline row (OPEN when it has none), and acknowledged_at,
\* resolved_at, closed_at are set exactly when a STATUS_CHANGE row into ACKNOWLEDGED,
\* RESOLVED, CLOSED exists: status, timestamp and timeline row commit together.
C8_StatusWithTimeline ==
    \A i \in DOMAIN incidents :
        /\ incidents[i].status = StatusByTimeline(i)
        /\ (incidents[i].acknowledged_at # None) <=> EnteredByTimeline(i, "ACKNOWLEDGED")
        /\ (incidents[i].resolved_at # None) <=> EnteredByTimeline(i, "RESOLVED")
        /\ (incidents[i].closed_at # None) <=> EnteredByTimeline(i, "CLOSED")

\* the committed state between the handler's commit of a status change into RESOLVED
\* and the commit of log_audit
C8_Witness ==
    \E w \in Workers :
        /\ pc[w] = "committed"
        /\ req[w].op = "status"
        /\ req[w].new_status = "RESOLVED"
        /\ Last(timeline).new_value = "RESOLVED"
        /\ incidents[req[w].incident_id].status = "RESOLVED"
        /\ incidents[req[w].incident_id].resolved_at # None

----------------------------------------------------------------------------
(* C9 *)

\* C9: of an accepted change_status call, the commit step appends to the timeline
\* exactly the STATUS_CHANGE row with the status the call read as old value and the
\* status it wrote as new value and leaves the audit log alone, the audit step appends to the audit log exactly one
\* STATUS_CHANGE row for the incident and leaves the timeline alone, and its query
\* step changes neither.
C9_OneTimelineOneAudit ==
    [][\A w \in Workers :
        LET i == req'[w].incident_id IN
        /\ (req'[w].op = "status" /\ pc[w] \in {"idle", "done"} /\ pc'[w] = "loaded")
            => UNCHANGED <<timeline, audit>>
        /\ (req'[w].op = "status" /\ pc[w] = "loaded" /\ pc'[w] = "committed")
            => /\ timeline' = Append(timeline,
                    [ incident_id |-> i, event_type |-> "STATUS_CHANGE",
                      old_value |-> req[w].old_status,
                      new_value |-> req[w].new_status ])
               /\ incidents'[i].status = req[w].new_status
               /\ audit' = audit
        /\ (req'[w].op = "status" /\ pc[w] = "committed" /\ resp'[w] = "200")
            => /\ audit' = Append(audit,
                    [ entity_type |-> "INCIDENT", entity_id |-> i,
                      action |-> "STATUS_CHANGE",
                      extra_data |-> <<req[w].old_status, req[w].new_status>> ])
               /\ timeline' = timeline]_vars

\* an accepted change_status call ran to completion
C9_Witness ==
    \E w \in Workers :
        /\ StatusAnswered(w)
        /\ resp[w] = "200"
        /\ Last(timeline).event_type = "STATUS_CHANGE"
        /\ Last(audit).action = "STATUS_CHANGE"
        /\ Len(TimelineOf(req[w].incident_id, "STATUS_CHANGE")) = 2
        /\ Len(AuditOf(req[w].incident_id, "STATUS_CHANGE")) = 2

----------------------------------------------------------------------------
(* C10 *)

\* C10: once set, acknowledged_at, resolved_at and closed_at of an incident are never
\* written again, and each is set only by a step that moves the status into
\* ACKNOWLEDGED, RESOLVED and CLOSED respectively.
C10_TimestampsWrittenOnce ==
    [][\A i \in DOMAIN incidents :
        LET old == incidents[i]
            new == incidents'[i]
            entered(s) == old.status # s /\ new.status = s
        IN  /\ old.acknowledged_at # None => new.acknowledged_at = old.acknowledged_at
            /\ old.resolved_at # None => new.resolved_at = old.resolved_at
            /\ old.closed_at # None => new.closed_at = old.closed_at
            /\ new.acknowledged_at # old.acknowledged_at => entered("ACKNOWLEDGED")
            /\ new.resolved_at # old.resolved_at => entered("RESOLVED")
            /\ new.closed_at # old.closed_at => entered("CLOSED")]_vars

----------------------------------------------------------------------------
(* C11 *)

\* C11: in every reachable state every corrective action belongs to an incident
\* whose status is RESOLVED or CLOSED.
C11_ActionsOfResolvedIncidents ==
    \A a \in DOMAIN corrective_actions :
        incidents[corrective_actions[a].incident_id].status \in {"RESOLVED", "CLOSED"}

----------------------------------------------------------------------------
(* C12 *)

\* C12: an update of an existing corrective action that sets its status to the
\* completed status CLOSED succeeds, and the action then has completed_at set.
C12_CompletionStamped ==
    \A w \in Workers :
        (/\ pc[w] = "done"
         /\ req[w].op = "update_action"
         /\ req[w].status = "CLOSED"
         /\ req[w].action_id \in DOMAIN corrective_actions)
        => /\ resp[w] = "200"
           /\ corrective_actions[req[w].action_id].status = "CLOSED"
           /\ corrective_actions[req[w].action_id].completed_at # None

----------------------------------------------------------------------------
(* C13 *)

\* the reminder notifications attempted for corrective action a
Attempts(box, a) ==
    LET P(m) == m.action_id = a IN Len(SelectSeq(box, P))

\* the audit rows of reminders for corrective action a
ReminderAudits(log, a) ==
    LET P(r) == /\ r.entity_type = "CORRECTIVE_ACTION"
                /\ r.entity_id = a
                /\ r.action = "UPDATE"
                /\ r.extra_data # <<>>
    IN  Len(SelectSeq(log, P))

\* action a is in a non-terminal status and its owner has an email address
Eligible(a) ==
    /\ corrective_actions[a].status # "CLOSED"
    /\ has_email(corrective_actions[a].owner_user_id)

\* this step ends a run of send_reminders by thread t
SweepEnds(t) == sweep[t].at = "running" /\ sweep'[t].at = "idle"

\* C13: a run of the reminder sweep dispatches exactly one notification and records
\* exactly one audit row for every corrective action that is in a non-terminal
\* status and whose owner has an email address, and none for any other action.
C13_OneReminderPerOpenAction ==
    [][\A t \in Threads : SweepEnds(t) =>
        \A a \in DOMAIN corrective_actions :
            LET due == IF Eligible(a) THEN 1 ELSE 0
            IN  /\ Attempts(outbox', a) = Attempts(outbox, a) + due
                /\ ReminderAudits(audit', a) = ReminderAudits(audit, a) + due]_vars

----------------------------------------------------------------------------
(* C14 *)

----------------------------------------------------------------------------
(* C15 *)

\* C15: at most one execution of send_reminders is in progress at any time.
C15_SingleActiveSweep ==
    Cardinality({t \in Threads : sweep[t].at = "running"}) <= 1

----------------------------------------------------------------------------
(* C16 *)

\* worker w answers a create request that got past its commit
CreateReturns(w) ==
    /\ req[w].op = "create"
    /\ pc[w] \in {"committed", "audited"}
    /\ pc'[w] = "done"

\* C16: whatever the similarity advisory does (disabled, candidates found, nothing
\* found, failed, raised), the create that triggered it answers with success, and
\* the incident row, its CREATE timeline entry and its CREATE audit record are
\* all there, the row as it was committed.
C16_AdvisoryNeverFailsCreate ==
    [][\A w \in Workers :
        CreateReturns(w) =>
            LET i == req[w].incident_id IN
            /\ resp'[w] = "200"
            /\ req'[w].incident_id = i
            /\ i \in DOMAIN incidents /\ incidents' = incidents
            /\ Len(TimelineOf(i, "CREATE"))' = 1
            /\ Len(AuditOf(i, "CREATE"))' = 1
            /\ pc[w] = "audited" => audit' = audit]_vars

C16_Witness ==
    \E w \in Workers :
        /\ pc[w] = "done"
        /\ req[w].op = "create"
        /\ req[w].advisory = "raises"
        /\ historical(req[w].incident_id) # {}
        /\ resp[w] = "200"
        /\ Len(AuditOf(req[w].incident_id, "CREATE")) = 1

----------------------------------------------------------------------------
(* C17 *)

\* worker w has just answered a create request with success
CreateAnswered(w) ==
    /\ pc[w] = "done"
    /\ req[w].op = "create"
    /\ resp[w] = "200"

\* the timeline rows of incident i, in insertion order
TimelineRows(i) ==
    LET P(e) == e.incident_id = i IN Rows(timeline, P)

----------------------------------------------------------------------------
(* C18 *)

\* the impact fields of an incident row
ImpactOf(incident) == <<incident.downtime, incident.technical_decline_pct>>

\* worker w commits an update of incident i
UpdateCommits(w, i) ==
    /\ req[w].op = "update"
    /\ req[w].incident_id = i
    /\ pc[w] = "loaded"
    /\ pc'[w] = "committed"

\* C18: the impact fields of an incident (downtime, technical_decline_pct, and
\* financial_impact alike) are unset when it is created, and a step changes them
\* only when it is the commit of an update whose actor is INCIDENT_MANAGER or
\* ADMIN; no step of an SME, SUPPORT_L2 or SUPPORT_EXPERT changes them.
C18_ImpactFieldsPrivileged ==
    [][/\ \A i \in DOMAIN incidents :
            ImpactOf(incidents'[i]) # ImpactOf(incidents[i]) =>
                \E w \in Workers :
                    /\ UpdateCommits(w, i)
                    /\ role_of(req[w].user) \in {"INCIDENT_MANAGER", "ADMIN"}
       /\ \A i \in DOMAIN incidents' \ DOMAIN incidents :
            ImpactOf(incidents'[i]) = <<<<>>, <<>>>>]_vars

C18_Witness ==
    \E w \in Workers :
        /\ pc[w] = "done"
        /\ req[w].op = "update"
        /\ role_of(req[w].user) = "SUPPORT_EXPERT"
        /\ req[w].downtime = <<TRUE>>
        /\ resp[w] = "403"
        /\ incidents[req[w].incident_id].downtime = <<>>
        /\ incidents[req[w].incident_id].technical_decline_pct = <<100>>

----------------------------------------------------------------------------
(* C19 *)

\* worker w answers an update request with Forbidden
UpdateForbidden(w) ==
    /\ req[w].op = "update"
    /\ pc[w] = "loaded"
    /\ resp'[w] = "403"

\* C19: an update refused as Forbidden (impact fields sent by an actor without
\* can_update_impact_fields) writes nothing: the incident rows, and with them the
\* title, the impact summary and the assignments sent in the same request, the
\* timeline and the audit log are what they were.
C19_ForbiddenUpdateWritesNothing ==
    [][\A w \in Workers :
        UpdateForbidden(w) => UNCHANGED <<incidents, timeline, audit>>]_vars

C19_Witness ==
    \E w \in Workers :
        /\ pc[w] = "done"
        /\ req[w].op = "update"
        /\ resp[w] = "403"
        /\ req[w].title = "edited"
        /\ req[w].impact_summary = "outage"
        /\ req[w].current_owner_id = 4
        /\ incidents[req[w].incident_id].title = "reported"
        /\ incidents[req[w].incident_id].impact_summary = Unset
        /\ incidents[req[w].incident_id].current_owner_id = None

----------------------------------------------------------------------------
(* C20 *)

\* worker w answers an update request with a validation error
UpdateInvalid(w) ==
    /\ req'[w].op = "update"
    /\ pc'[w] = "done"
    /\ resp'[w] = "422"

\* worker w takes an update request
UpdateTaken(w) ==
    /\ pc[w] \in {"idle", "done"}
    /\ req'[w].op = "update"
    /\ <<pc'[w], req'[w], resp'[w]>> # <<pc[w], req[w], resp[w]>>

PercentageInRange ==
    \A i \in DOMAIN incidents :
        \/ incidents[i].technical_decline_pct = <<>>
        \/ /\ incidents[i].technical_decline_pct[1] >= 0
           /\ incidents[i].technical_decline_pct[1] <= 100

\* C20: an update whose technical_decline_pct is outside [0,100] is answered with
\* a validation error by a step that writes nothing, and the technical_decline_pct
\* of every incident is always either unset or within [0,100].
C20_PercentageValidated ==
    /\ []PercentageInRange
    /\ [][\A w \in Workers :
            /\ UpdateInvalid(w) => UNCHANGED <<incidents, timeline, audit>>
            /\ (/\ UpdateTaken(w)
                /\ req'[w].technical_decline_pct # <<>>
                /\ ~valid_pct(req'[w].technical_decline_pct[1]))
                    => UpdateInvalid(w)]_vars

C20_Witness ==
    \E w \in Workers :
        /\ pc[w] = "done"
        /\ req[w].op = "update"
        /\ resp[w] = "422"
        /\ req[w].technical_decline_pct = <<150>>
        /\ role_of(req[w].user) = "INCIDENT_MANAGER"
        /\ req[w].incident_id \in DOMAIN incidents
        /\ incidents[req[w].incident_id].technical_decline_pct = <<100>>


----------------------------------------------------------------------------
(* C21 *)

\* the update handler of worker w, once committed, goes on to add an audit row
\* (incidents.py:300-302: only when `changes` is not empty)
UpdateAudits(w) == changes_of(req[w]) # {}

\* C21: every committed operation that changes a stored field of an incident or
\* of a corrective action adds at least one timeline entry or audit record: the
\* commit of an update that changes an incident row adds a timeline row, or the
\* handler goes on to add an audit row; and a step that changes a corrective
\* action belongs to a handler that goes on to add an audit row.
C21_EveryChangeRecorded ==
    [][/\ \A w \in Workers, i \in DOMAIN incidents :
            (UpdateCommits(w, i) /\ incidents'[i] # incidents[i])
                => \/ Len(timeline') > Len(timeline)
                   \/ UpdateAudits(w)
       /\ corrective_actions' # corrective_actions
            => \E w \in Workers : pc'[w] = "committed"]_vars

----------------------------------------------------------------------------
(* C24 *)

\* 1 when the two values differ, 0 when they are the same
Changed(old, new) == IF old # new THEN 1 ELSE 0

\* C24: the commit of an update adds one ASSIGNMENT timeline entry for each of
\* the relations incident_manager and current_owner whose stored value it
\* changes, and none for a relation whose stored value stays the same.
C24_AssignmentPerChangedRelation ==
    [][\A w \in Workers, i \in DOMAIN incidents :
        UpdateCommits(w, i) =>
            Len(TimelineOf(i, "ASSIGNMENT"))' - Len(TimelineOf(i, "ASSIGNMENT")) =
                Changed(incidents[i].incident_manager_id, incidents'[i].incident_manager_id)
                + Changed(incidents[i].current_owner_id, incidents'[i].current_owner_id)]_vars


----------------------------------------------------------------------------
(* C23 *)

\* worker w takes a comment request
CommentTaken(w) ==
    /\ pc[w] \in {"idle", "done"}
    /\ req'[w].op = "comment"
    /\ <<pc'[w], req'[w], resp'[w]>> # <<pc[w], req[w], resp[w]>>

\* C23: add_comment on an existing incident appends exactly one COMMENT timeline
\* entry (at its commit) and exactly one COMMENT audit record (after it) and no
\* step of it changes a field of any incident; on a missing incident it answers
\* NotFound and appends nothing.
C23_CommentAppendsOnly ==
    [][\A w \in Workers :
        /\ CommentTaken(w) =>
            /\ UNCHANGED <<incidents, timeline, audit>>
            /\ req'[w].incident_id \notin DOMAIN incidents
                => pc'[w] = "done" /\ resp'[w] = "404"
            /\ req'[w].incident_id \in DOMAIN incidents => pc'[w] = "loaded"
        /\ (req[w].op = "comment" /\ pc[w] = "loaded" /\ pc'[w] # "loaded") =>
            /\ timeline' = Append(timeline,
                    [ incident_id |-> req[w].incident_id, event_type |-> "COMMENT",
                      old_value |-> "", new_value |-> "" ])
            /\ UNCHANGED <<incidents, audit>>
            /\ pc'[w] = "committed"
        /\ (req[w].op = "comment" /\ pc[w] = "committed" /\ pc'[w] # "committed") =>
            /\ Len(audit') = Len(audit) + 1
            /\ Len(AuditOf(req[w].incident_id, "COMMENT"))'
                    = Len(AuditOf(req[w].incident_id, "COMMENT")) + 1
            /\ UNCHANGED <<incidents, timeline>>
            /\ resp'[w] = "200"]_vars

C23_Witness ==
    \E w \in Workers :
        /\ pc[w] = "done"
        /\ req[w].op = "comment"
        /\ resp[w] = "200"
        /\ Last(timeline).event_type = "COMMENT"
        /\ Last(audit).action = "COMMENT"
        /\ incidents[req[w].incident_id].status = "ACKNOWLEDGED"


----------------------------------------------------------------------------
(* C25 *)

\* worker w decides a request to move an ACKNOWLEDGED incident to IN_PROGRESS
StartsProgress(w) ==
    /\ req[w].op = "status"
    /\ pc[w] = "loaded"
    /\ pc'[w] # "loaded"
    /\ req[w].old_status = "ACKNOWLEDGED"
    /\ req[w].new_status = "IN_PROGRESS"

\* C25: a request to move an incident from ACKNOWLEDGED to IN_PROGRESS is accepted
\* whatever the role of its actor: the handler commits the new status and goes on
\* to answer with success, for ADMIN, INCIDENT_MANAGER, SME, SUPPORT_L2 and
\* SUPPORT_EXPERT alike.
C25_InProgressUngated ==
    [][\A w \in Workers :
        /\ StartsProgress(w) =>
            /\ pc'[w] = "committed"
            /\ incidents'[req[w].incident_id].status = "IN_PROGRESS"
        /\ (/\ req[w].op = "status" /\ pc[w] = "committed" /\ pc'[w] = "done"
            /\ req[w].new_status = "IN_PROGRESS")
                => resp'[w] = "200"]_vars

C25_Witness ==
    \E w \in Workers :
        /\ StatusAnswered(w)
        /\ resp[w] = "200"
        /\ role_of(req[w].user) = "SME"
        /\ req[w].old_status = "ACKNOWLEDGED"
        /\ req[w].new_status = "IN_PROGRESS"
        /\ incidents[req[w].incident_id].status = "IN_PROGRESS"


----------------------------------------------------------------------------
(* C26 *)

\* the advisory of worker w's create runs to its end
AdvisoryRuns(w) ==
    /\ req[w].op = "create"
    /\ pc[w] = "audited"
    /\ pc'[w] = "done"

\* C26: a run of the similarity advisory appends one AI_RECOMMENDATION timeline
\* entry for the incident when the collaborator returned at least one candidate,
\* and leaves the timeline as it was when there is no RESOLVED or CLOSED incident
\* of the same bank, when the collaborator fails or when it returns no candidate;
\* with the advisory disabled no AI_RECOMMENDATION entry exists at all.
C26_RecommendationIffCandidates ==
    /\ [](~ai_enabled =>
            \A k \in DOMAIN timeline : timeline[k].event_type # "AI_RECOMMENDATION")
    /\ [][\A w \in Workers :
            AdvisoryRuns(w) =>
                LET i == req[w].incident_id
                    found == historical(i) # {} /\ req'[w].advisory = "candidates"
                IN  /\ found => timeline' = Append(timeline,
                            [ incident_id |-> i, event_type |-> "AI_RECOMMENDATION",
                              old_value |-> "", new_value |-> "" ])
                    /\ ~found => timeline' = timeline]_vars

C26_Witness ==
    \E w \in Workers :
        /\ CreateAnswered(w)
        /\ req[w].advisory = "fails"
        /\ historical(req[w].incident_id) # {}
        /\ \E k \in DOMAIN ai_similar_incidents :
                ai_similar_incidents[k].incident_id = req[w].incident_id
        /\ TimelineOf(req[w].incident_id, "AI_RECOMMENDATION") = <<>>


----------------------------------------------------------------------------
(* C28 *)

\* C28: in every state the timestamps of an incident agree with its status:
\* acknowledged_at is set exactly from ACKNOWLEDGED on, resolved_at exactly from
\* RESOLVED on, closed_at exactly when CLOSED, and the ones that are set are in
\* the order acknowledged_at <= resolved_at <= closed_at.
C28_TimestampsAgreeWithStatus ==
    \A i \in DOMAIN incidents :
        LET inc == incidents[i] IN
        /\ inc.acknowledged_at # None <=> Position(inc.status) >= Position("ACKNOWLEDGED")
        /\ inc.resolved_at # None <=> Position(inc.status) >= Position("RESOLVED")
        /\ inc.closed_at # None <=> inc.status = "CLOSED"
        /\ inc.resolved_at # None => inc.acknowledged_at <= inc.resolved_at
        /\ inc.closed_at # None => inc.resolved_at <= inc.closed_at


----------------------------------------------------------------------------
(* C29 *)

\* an id that names a user who may manage incidents
IsManager(m) == m \in Users /\ role_of(m) \in {"INCIDENT_MANAGER", "ADMIN"}

\* worker w takes a create request
CreateTaken(w) ==
    /\ pc[w] \in {"idle", "done"}
    /\ req'[w].op = "create"
    /\ <<pc'[w], req'[w], resp'[w]>> # <<pc[w], req[w], resp[w]>>

ManagersValid ==
    \A i \in DOMAIN incidents :
        incidents[i].incident_manager_id = None \/ IsManager(incidents[i].incident_manager_id)

----------------------------------------------------------------------------
(* C30 *)

\* the postmortems of incident i
PostmortemsOf(i) == { k \in DOMAIN postmortems : postmortems[k].incident_id = i }

\* C30: every incident has at most one postmortem, and every postmortem was
\* created by an INCIDENT_MANAGER or ADMIN for an incident that was RESOLVED or
\* CLOSED; this holds also when two create requests for the same incident both
\* pass the existence check before either commits.
C30_OnePostmortemPerIncident ==
    /\ \A i \in DOMAIN incidents : Cardinality(PostmortemsOf(i)) <= 1
    /\ \A k \in DOMAIN postmortems :
        /\ role_of(postmortems[k].created_by_id) \in {"INCIDENT_MANAGER", "ADMIN"}
        /\ postmortems[k].incident_id \in DOMAIN incidents
        /\ incidents[postmortems[k].incident_id].status \in {"RESOLVED", "CLOSED"}

\* both requests passed the existence check, one committed, the other was refused
C30_Witness ==
    \E w, v \in Workers :
        /\ w # v
        /\ req[w].op = "postmortem" /\ req[v].op = "postmortem"
        /\ req[w].incident_id = req[v].incident_id
        /\ pc[w] = "done" /\ resp[w] = "200"
        /\ pc[v] = "done" /\ resp[v] = "500"
        /\ Cardinality(PostmortemsOf(req[w].incident_id)) = 1


----------------------------------------------------------------------------
(* C27 *)

\* worker w takes a request
RequestTaken(w) ==
    /\ pc[w] \in {"idle", "done"}
    /\ <<pc'[w], req'[w], resp'[w]>> # <<pc[w], req[w], resp[w]>>

\* the session presented exists, has not expired and belongs to an inactive user
InactiveSession(s) ==
    /\ s \in DOMAIN sessions
    /\ ~sessions[s].deleted
    /\ ~sessions[s].expired
    /\ ~active[sessions[s].user_id]

\* C27: a user whose active flag is false cannot act: a login of that user is
\* refused and creates no session; a request that is taken by a handler acts for
\* a user who is active at that moment; and a request refused as unauthenticated,
\* as every request presenting an unexpired session of an inactive user is,
\* changes no incident, timeline entry, audit record or corrective action.
C27_InactiveUsersCannotAct ==
    [][\A w \in Workers :
        RequestTaken(w) =>
            /\ (req'[w].op = "login" /\ ~active[req'[w].user])
                => resp'[w] = "401" /\ sessions' = sessions
            /\ req'[w].op \in {"create", "status", "comment"} => active[req'[w].user]
            /\ req'[w].op = "unauthenticated" =>
                /\ resp'[w] = "401"
                /\ UNCHANGED <<incidents, timeline, audit, corrective_actions>>
            /\ (\E s \in DOMAIN sessions : InactiveSession(s)
                    /\ req'[w].op \notin {"login", "logout"}
                    /\ \A t \in DOMAIN sessions : InactiveSession(t) \/ get_session(t) = None)
                => req'[w].op = "unauthenticated"]_vars

\* a request presenting the unexpired session of a deactivated user was refused
C27_Witness ==
    \E w \in Workers :
        /\ pc[w] = "done"
        /\ req[w].op = "unauthenticated"
        /\ resp[w] = "401"
        /\ InactiveSession(req[w].session)
        /\ Len(incidents) = 1


----------------------------------------------------------------------------
(* C22 *)

\* sequence s is the beginning of sequence t
Extends(t, s) == Len(s) <= Len(t) /\ SubSeq(t, 1, Len(s)) = s

\* C22: timeline entries and audit records are append-only: every step leaves the
\* rows already in the timeline and in the audit log as they are and in their
\* order, so the timeline after the step extends the timeline before it, for
\* every incident and as a whole, and the audit log extends the audit log.
C22_HistoryAppendOnly ==
    [][/\ Extends(timeline', timeline)
       /\ Extends(audit', audit)
       /\ \A i \in DOMAIN incidents : Extends(TimelineRows(i)', TimelineRows(i))]_vars

C22_Witness ==
    /\ Quiescent
    /\ \E i \in DOMAIN incidents :
        /\ TimelineOf(i, "STATUS_CHANGE") # <<>>
        /\ TimelineOf(i, "ASSIGNMENT") # <<>>
        /\ TimelineOf(i, "COMMENT") # <<>>
        /\ AuditOf(i, "UPDATE") # <<>>
        /\ AuditOf(i, "COMMENT") # <<>>
        /\ AuditOf(i, "STATUS_CHANGE") # <<>>

====
